---- MODULE Spec2Model ----
(***************************************************************************)
(* Model of Drom.py: the hexagon geometry (class hex) and the command loop *)
(* of main() that owns list_of_hexes, current_hex, current_hex_num and the *)
(* one-level undo pair last_hex / last_hex_num.                            *)
(*                                                                         *)
(* Coordinates are kept exactly on the integer lattice X = 2*x,            *)
(* Y = 2*y/sqrt(3): every coordinate the program produces from the seed    *)
(* (0,0) is a multiple of 0.5 in x and of sqrt(3)/2 in y.                  *)
(*                                                                         *)
(* A hex object is a record [id, start]: id is the object's identity       *)
(* (class hex defines no __eq__, so list.index compares identities) and    *)
(* start is the attribute self.start.                                      *)
(***************************************************************************)
EXTENDS Integers, Sequences, FiniteSets, TLC

\* ------------------------------------------------------------------ bounds
\* Number of hex objects the editor may construct (seed included).
MaxCreated == 2
\* Largest digit that is typed at the "change_hex" / "remove" prompts.
MaxIndex == 1
\* Longest chain of hexes (seed included) built in ChainSpec.
MaxChain == 4
\* Largest |num| passed to hex.add_hex in LibSpec.
MaxEdgeArg == 7
\* Number of hex objects (seed included) constructed in LibSpec.
MaxLib == 2
\* Number of hex objects (seed and loaded ones included) constructed in
\* DeepSpec.
MaxDeep == 3
\* Largest list index typed at the index prompts in DeepSpec.
MaxDeepIndex == 2

\* ------------------------------------------------------------ python lists
\* list[I] / list.pop(I) accept -len <= I < len.
PyValid(I, n) == (-n <= I) /\ (I < n)
PyNorm(I, n) == IF I < 0 THEN I + n ELSE I
PyGet(list, I) == list[PyNorm(I, Len(list)) + 1]
PyPop(list, I) ==
    LET k == PyNorm(I, Len(list)) + 1
    IN  [j \in 1..(Len(list) - 1) |-> IF j < k THEN list[j] ELSE list[j + 1]]
InList(list, x) == \E k \in 1..Len(list) : list[k] = x
\* list.index(x): 0-based position of the first occurrence.
ListIndex(list, x) ==
    (CHOOSE k \in 1..Len(list) :
        list[k] = x /\ \A j \in 1..(k - 1) : list[j] # x) - 1

\* ---------------------------------------------------------------- geometry
\* hex.own_verts, on the lattice (0-based vertex i is own_verts[i+1]).
own_verts ==
    << <<0, 0>>, <<2, 0>>, <<3, 1>>, <<2, 2>>, <<0, 2>>, <<-1, 1>> >>

\* center offset (0.5, sqrt(3)/2) on the lattice.
center_offset == <<1, 1>>

\* offsets of the six neighbour centers on the lattice
\* (neighbour_offsets_M: the offsets of edges 4 and 5 exchanged).
neighbour_offsets_M ==
    << <<0, -2>>, <<3, -1>>, <<3, 1>>, <<0, 2>>, <<-3, -1>>, <<-3, 1>> >>
neighbour_offsets ==
    << <<0, -2>>, <<3, -1>>, <<3, 1>>, <<0, 2>>, <<-3, 1>>, <<-3, -1>> >>

PtAdd(p, q) == <<p[1] + q[1], p[2] + q[2]>>
PtSub(p, q) == <<p[1] - q[1], p[2] - q[2]>>

\* hex.set_start: self.start = start - self.own_verts[i]
set_start(start, i) == PtSub(start, own_verts[i + 1])

\* hex.__init__(start, i) creating the object with identity id.
NewHex(id, start, i) == [id |-> id, start |-> set_start(start, i)]

\* hex._create_hex: self.vertices = self.own_verts + self.start
vertices(h) == [k \in 1..6 |-> PtAdd(own_verts[k], h.start)]

\* hex.get_vert(i)
get_vert(h, i) == vertices(h)[i + 1]

\* hex._create_center
center(h) == PtAdd(h.start, center_offset)
neighbour_center(h) == [k \in 1..6 |-> PtAdd(center(h), neighbour_offsets[k])]

\* hex.__init__: self.thicc = [True] * 6
AllThicc == [n \in 1..6 |-> TRUE]

\* np.isclose(neigh, c).all(): both coordinates within the tolerance
\* (1e-8 + 1e-5 * |c|), which on the lattice, whose points are at least
\* 0.5 apart in a coordinate, is equality of both lattice coordinates.
isclose_all(neigh, c) == neigh[1] = c[1] /\ neigh[2] = c[2]

\* hex.check_neighbours(all_centers): the value of self.thicc afterwards
\* (check_neighbours_M: .any(axis=1), a row matches when one coordinate
\* matches).
check_neighbours_M(h, centers) ==
    [n \in 1..6 |->
        ~(\E c \in centers : \/ neighbour_center(h)[n][1] = c[1]
                              \/ neighbour_center(h)[n][2] = c[2])]
check_neighbours(h, centers) ==
    [n \in 1..6 |->
        ~(\E c \in centers : isclose_all(neighbour_center(h)[n], c))]

\* the six named methods; id is the identity of the object they construct
\* (add_hex_bottom_left_M: the new hex pinned at its vertex 4).
add_hex_under(h, id) == NewHex(id, get_vert(h, 0), 4)
add_hex_bottom_right(h, id) == NewHex(id, get_vert(h, 1), 5)
add_hex_top_right(h, id) == NewHex(id, get_vert(h, 2), 0)
add_hex_over(h, id) == NewHex(id, get_vert(h, 4), 0)
add_hex_top_left(h, id) == NewHex(id, get_vert(h, 5), 1)
add_hex_bottom_left_M(h, id) == NewHex(id, get_vert(h, 5), 4)
add_hex_bottom_left(h, id) == NewHex(id, get_vert(h, 5), 3)

\* the two tables of hex.add_hex (start_vert_num_M: edge 3 taken from
\* vertex 3 instead of vertex 4; end_vert_num_M: edge 5 pinned at vertex 2)
start_vert_num_M == <<0, 1, 2, 3, 5, 5>>
start_vert_num == <<0, 1, 2, 4, 5, 5>>
end_vert_num_M == <<4, 5, 0, 0, 1, 2>>
end_vert_num == <<4, 5, 0, 0, 1, 3>>

\* start_vert_num[num] raises IndexError unless -6 <= num < 6.
add_hex_raises(num) == ~PyValid(num, Len(start_vert_num))

\* hex.add_hex(num), for a num the tables accept; id is the identity of the
\* object it constructs.
add_hex(h, num, id) ==
    NewHex(id, get_vert(h, PyGet(start_vert_num, num)),
           PyGet(end_vert_num, num))

\* hex.print_edges: edge n is labelled at the midpoint of vertices n and
\* (n+1) mod 6; edge_ends gives the two vertices that bound edge n.
edge_ends(h, n) == {vertices(h)[n + 1], vertices(h)[((n + 1) % 6) + 1]}

\* ------------------------------------------------------------------ files
\* hex._create_tex: the \draw line lists the six vertices and then start.
\* Coordinates are printed with the shortest text that float() reads back
\* to the same number, so a line is kept as the points it prints.
create_tex(h) == [k \in 1..7 |-> IF k <= 6 THEN vertices(h)[k] ELSE h.start]

\* write_latex: the lines of the file that read_tex looks at, a "%hex" line
\* and the hex's \draw line for every hex.  The preamble, \node and
\* postamble lines are left out: none of them reads "%hex" and none
\* follows a "%hex" line.
RECURSIVE HexLines(_)
HexLines(list) ==
    IF list = <<>> THEN <<>>
    ELSE <<[text |-> "%hex", pts |-> <<>>],
           [text |-> "draw", pts |-> create_tex(Head(list))]>>
             \o HexLines(Tail(list))

\* read_tex: the lines that follow a "%hex" line, in order.
RECURSIVE LinesWithHexes(_, _)
LinesWithHexes(lines, n) ==
    IF n > Len(lines) THEN <<>>
    ELSE IF lines[n].text = "%hex" /\ n + 1 <= Len(lines)
         THEN <<lines[n + 1]>> \o LinesWithHexes(lines, n + 1)
         ELSE LinesWithHexes(lines, n + 1)

\* read_tex: one hex per such line, from the first point of the line, with
\* i = 0; the objects get the identities first_id, first_id + 1, ...
read_tex(lines, first_id) ==
    LET found == LinesWithHexes(lines, 1)
    IN  [k \in 1..Len(found) |->
            NewHex(first_id + k - 1, found[k].pts[1], 0)]

\* the names typed at the "load" prompt ("Drom" is the file every export
\* writes, no file "other" exists) and at the "save" prompt
FileNames == {"Drom", "other"}
SaveNames == {"Drom"}
NoFile == [exists |-> FALSE, lines |-> <<>>]

\* ------------------------------------------------------------ input parsing
Digits == <<"0", "1", "2", "3", "4", "5", "6", "7", "8", "9">>
DigitChars == {Digits[d + 1] : d \in 0..MaxIndex}
DigitVal(c) == (CHOOSE d \in 1..10 : Digits[d] = c) - 1
IsDigit(c) == \E d \in 1..10 : Digits[d] = c

RECURSIVE DigitsVal(_)
DigitsVal(s) ==
    IF s = <<>> THEN 0
    ELSE 10 * DigitsVal(SubSeq(s, 1, Len(s) - 1)) + DigitVal(s[Len(s)])

\* int(I): the value, or a ValueError (ok = FALSE).
ParseInt(s) ==
    LET neg  == Len(s) > 0 /\ s[1] = "-"
        body == IF neg THEN Tail(s) ELSE s
    IN  IF body # <<>> /\ \A k \in 1..Len(body) : IsDigit(body[k])
        THEN [ok |-> TRUE,
              val |-> IF neg THEN 0 - DigitsVal(body) ELSE DigitsVal(body)]
        ELSE [ok |-> FALSE, val |-> 0]

\* what is typed at the index prompts: a digit, a negated digit, or text
\* that int() cannot interpret.
IndexInputs ==
    {<<c>> : c \in DigitChars} \cup {<<"-", c>> : c \in DigitChars}
        \cup {<<"x">>, <<>>}

NoArg == [ok |-> FALSE, val |-> 0]

\* ------------------------------------------------------------------- state
VARIABLES
    list_of_hexes,    \* main: list_of_hexes
    current_hex,      \* main: current_hex
    current_hex_num,  \* main: current_hex_num
    last_hex,         \* main: last_hex (meaningful only when last_bound)
    last_hex_num,     \* main: last_hex_num (meaningful only when last_bound)
    last_bound,       \* whether the locals last_hex / last_hex_num are bound
    pc,               \* "prompt", "quit" (loop = False) or "crashed"
    created,          \* number of hex objects constructed so far
    thicc,            \* self.thicc of every constructed hex, by identity
    cmd,              \* history: the last command read at the prompt
    arg,              \* history: its numeric argument as int() returned it
    outcome,          \* history: "ok", "rejected" (except branch) or "crashed"
    pre_num,          \* history: current_hex_num when the last "remove" began
                      \*          (0 after any other command)
    before_add,       \* history: list and current hex an add started from,
                      \*          kept until the command after that add
    pairs_only,       \* history: the commands so far were add / remove_last
                      \*          pairs (each add directly undone)
    all_centers,      \* history: the centers passed to the last
                      \*          check_neighbours call (else empty)
    files,            \* the .tex files, by name without extension
    added,            \* history: the hex the last add appended, kept while
                      \*          only change_hex / remove commands follow
    loaded            \* history: the collection the last load produced,
                      \*          kept until the next add

vars == <<list_of_hexes, current_hex, current_hex_num, last_hex, last_hex_num,
          last_bound, pc, created, cmd, arg, outcome, pre_num,
          before_add, pairs_only, thicc, all_centers, files, added, loaded>>

NoHex == [id |-> 0, start |-> <<0, 0>>]

NoSnapshot ==
    [list_of_hexes |-> <<>>, current_hex |-> NoHex, current_hex_num |-> 0]

\* hex(): start = (0,0), i = 0
start_hex == NewHex(1, <<0, 0>>, 0)

\* write_latex raises IndexError at list_of_hexes[print_edges] when
\* print_edges is an int that is no valid list index.
WriteLatexRaises(list, print_edges) == ~PyValid(print_edges, Len(list))

\* write_latex(list, filename): the files after the hex lines are written
\* (they are written before print_edges is looked at).
write_latex(list, filename) ==
    [files EXCEPT ![filename] = [exists |-> TRUE, lines |-> HexLines(list)]]

Init ==
    /\ list_of_hexes = <<start_hex>>
    /\ current_hex = start_hex
    /\ current_hex_num = 0
    /\ last_hex = start_hex
    /\ last_hex_num = 0
    /\ last_bound = FALSE
    /\ pc = "prompt"
    /\ created = 1
    /\ thicc = [i \in 1..1 |-> AllThicc]
    /\ cmd = "init"
    /\ arg = NoArg
    /\ outcome = "ok"
    /\ pre_num = 0
    /\ before_add = NoSnapshot
    /\ pairs_only = TRUE
    /\ all_centers = {}
    /\ files = [f \in FileNames |->
                  IF f = "Drom"
                  THEN [exists |-> TRUE, lines |-> HexLines(<<start_hex>>)]
                  ELSE NoFile]
    /\ added = NoHex
    /\ loaded = <<>>

History(c, a, o) ==
    /\ cmd' = c
    /\ arg' = a
    /\ outcome' = o
    /\ pre_num' = IF c = "remove" THEN current_hex_num ELSE 0
    /\ before_add' =
          IF c = "add"
          THEN [list_of_hexes |-> list_of_hexes, current_hex |-> current_hex,
                current_hex_num |-> current_hex_num]
          ELSE NoSnapshot
    /\ pairs_only' =
          (pairs_only /\ \/ c = "add" /\ cmd \in {"init", "remove_last"}
                         \/ c = "remove_last" /\ cmd = "add")
    /\ all_centers' = {}
    /\ added' = IF c = "add" THEN list_of_hexes'[Len(list_of_hexes')]
                ELSE IF c \in {"change_hex", "remove"} THEN added
                ELSE NoHex
    /\ loaded' = IF c = "load" /\ o = "ok" THEN list_of_hexes'
                 ELSE IF c = "add" THEN <<>>
                 ELSE loaded
    /\ pc' = IF o = "crashed" THEN "crashed"
             ELSE IF c = "quit" THEN "quit" ELSE pc

\* hex.__init__ run for the objects created + 1 .. n: each gets its thicc
Constructed(n) ==
    [i \in 1..n |-> IF i <= created THEN thicc[i] ELSE AllThicc]

\* commands "0" .. "5", with last_hex_num taken after current_hex_num was
\* moved to the new hex
AddStep_M(num) ==
    /\ pc = "prompt"
    /\ LET new_hex == add_hex(current_hex, num, created + 1)
       IN  /\ last_hex' = current_hex
           /\ last_hex_num' = Len(list_of_hexes)
           /\ last_bound' = TRUE
           /\ list_of_hexes' = Append(list_of_hexes, new_hex)
           /\ current_hex_num' = Len(list_of_hexes)
           /\ current_hex' = new_hex
           /\ created' = created + 1
           /\ thicc' = Constructed(created + 1)
    /\ files' = write_latex(list_of_hexes', "Drom")
    /\ History("add", [ok |-> TRUE, val |-> num], "ok")

\* commands "0" .. "5"
AddStep(num) ==
    /\ pc = "prompt"
    /\ LET new_hex == add_hex(current_hex, num, created + 1)
       IN  /\ last_hex' = current_hex
           /\ last_hex_num' = current_hex_num
           /\ last_bound' = TRUE
           /\ list_of_hexes' = Append(list_of_hexes, new_hex)
           /\ current_hex_num' = Len(list_of_hexes)
           /\ current_hex' = new_hex
           /\ created' = created + 1
           /\ thicc' = Constructed(created + 1)
    /\ files' = write_latex(list_of_hexes', "Drom")
    /\ History("add", [ok |-> TRUE, val |-> num], "ok")

Add(num) == created < MaxCreated /\ AddStep(num)

\* command "change_hex"
ChangeHex(s) ==
    /\ pc = "prompt"
    /\ LET I == ParseInt(s)
       IN  IF ~I.ok
           THEN /\ UNCHANGED <<current_hex_num, current_hex, files>>
                /\ History("change_hex", I, "rejected")
           ELSE /\ current_hex_num' = I.val
                /\ IF PyValid(I.val, Len(list_of_hexes))
                   THEN /\ current_hex' = PyGet(list_of_hexes, I.val)
                        /\ files' = write_latex(list_of_hexes, "Drom")
                        /\ History("change_hex", I, "ok")
                   ELSE /\ UNCHANGED <<current_hex, files>>
                        /\ History("change_hex", I, "rejected")
    /\ UNCHANGED <<list_of_hexes, last_hex, last_hex_num, last_bound, created,
                   thicc>>

\* command "remove_last"
RemoveLast ==
    /\ pc = "prompt"
    /\ IF list_of_hexes = <<>>
       THEN /\ UNCHANGED <<list_of_hexes, current_hex, current_hex_num, files>>
            /\ History("remove_last", NoArg, "crashed")
       ELSE /\ list_of_hexes' = SubSeq(list_of_hexes, 1, Len(list_of_hexes) - 1)
            /\ IF ~last_bound
               THEN /\ UNCHANGED <<current_hex, current_hex_num, files>>
                    /\ History("remove_last", NoArg, "crashed")
               ELSE /\ current_hex_num' = last_hex_num
                    /\ current_hex' = last_hex
                    /\ files' = write_latex(list_of_hexes', "Drom")
                    /\ History("remove_last", NoArg,
                               IF WriteLatexRaises(list_of_hexes', last_hex_num)
                               THEN "crashed" ELSE "ok")
    /\ UNCHANGED <<last_hex, last_hex_num, last_bound, created,
                   thicc>>

\* the hex that is current after list_of_hexes.pop(I)
\* (RemoveCurrent_M: the fall-back to last_hex left out)
RemoveCurrent_M(I) == current_hex
RemoveCurrent(I) == IF I = current_hex_num THEN last_hex ELSE current_hex

\* command "remove"
Remove(s) ==
    /\ pc = "prompt"
    /\ LET I == ParseInt(s)
       IN  IF ~I.ok \/ ~PyValid(I.val, Len(list_of_hexes))
           THEN /\ UNCHANGED <<list_of_hexes, current_hex, current_hex_num,
                               files>>
                /\ History("remove", I, "rejected")
           ELSE /\ list_of_hexes' = PyPop(list_of_hexes, I.val)
                /\ IF I.val = current_hex_num /\ ~last_bound
                   THEN /\ UNCHANGED <<current_hex, current_hex_num, files>>
                        /\ History("remove", I, "rejected")
                   ELSE /\ current_hex' = RemoveCurrent(I.val)
                        /\ IF InList(list_of_hexes', current_hex')
                           THEN /\ current_hex_num' =
                                      ListIndex(list_of_hexes', current_hex')
                                /\ files' = write_latex(list_of_hexes', "Drom")
                                /\ History("remove", I, "ok")
                           ELSE /\ UNCHANGED <<current_hex_num, files>>
                                /\ History("remove", I, "rejected")
    /\ UNCHANGED <<last_hex, last_hex_num, last_bound, created,
                   thicc>>

\* command "show_all": write_latex(list_of_hexes, print_edges=current_hex_num)
ShowAll ==
    /\ pc = "prompt"
    /\ files' = write_latex(list_of_hexes, "Drom")
    /\ History("show_all", NoArg,
               IF WriteLatexRaises(list_of_hexes, current_hex_num)
               THEN "crashed" ELSE "ok")
    /\ UNCHANGED <<list_of_hexes, current_hex, current_hex_num, last_hex,
                   last_hex_num, last_bound, created,
                   thicc>>

\* command "print_full"
PrintFull ==
    /\ pc = "prompt"
    /\ files' = write_latex(list_of_hexes, "Drom")
    /\ History("print_full", NoArg, "ok")
    /\ UNCHANGED <<list_of_hexes, current_hex, current_hex_num, last_hex,
                   last_hex_num, last_bound, created, thicc>>

\* command "save"
Save(filename) ==
    /\ pc = "prompt"
    /\ files' = write_latex(list_of_hexes, filename)
    /\ History("save", NoArg, "ok")
    /\ UNCHANGED <<list_of_hexes, current_hex, current_hex_num, last_hex,
                   last_hex_num, last_bound, created, thicc>>

\* command "load"; cap bounds the number of objects constructed.
LoadStep(filename, cap) ==
    /\ pc = "prompt"
    /\ IF ~files[filename].exists
       THEN /\ UNCHANGED <<list_of_hexes, current_hex, current_hex_num,
                           created, thicc, files>>
            /\ History("load", NoArg, "crashed")
       ELSE LET hexes == read_tex(files[filename].lines, created + 1)
            IN  /\ created + Len(hexes) <= cap
                /\ list_of_hexes' = hexes
                /\ created' = created + Len(hexes)
                /\ thicc' = Constructed(created + Len(hexes))
                /\ IF hexes = <<>>
                   THEN /\ UNCHANGED <<current_hex, current_hex_num, files>>
                        /\ History("load", NoArg, "crashed")
                   ELSE /\ current_hex' = PyGet(hexes, -1)
                        /\ current_hex_num' = Len(hexes) - 1
                        /\ files' = write_latex(hexes, "Drom")
                        /\ History("load", NoArg, "ok")
    /\ UNCHANGED <<last_hex, last_hex_num, last_bound>>

\* command "quit": loop = False
Quit ==
    /\ pc = "prompt"
    /\ files' = write_latex(list_of_hexes, "Drom")
    /\ History("quit", NoArg, "ok")
    /\ UNCHANGED <<list_of_hexes, current_hex, current_hex_num, last_hex,
                   last_hex_num, last_bound, created,
                   thicc>>

\* The commands that build the Drom, on all six edges.  ("help" and
\* "print" only print and change none of the variables above.)
Next ==
    \/ \E num \in 0..5 : Add(num)
    \/ \E s \in IndexInputs : ChangeHex(s)
    \/ RemoveLast
    \/ \E s \in IndexInputs : Remove(s)
    \/ ShowAll
    \/ Quit

Spec == Init /\ [][Next]_vars

\* The editor with its export and persistence commands as well, with
\* hexes added under the current one only and with list indices typed at
\* the index prompts, which leaves room for more hexes.
DeepEdges == {0}
DeepIndexInputs == {<<Digits[d + 1]>> : d \in 0..MaxDeepIndex}
DeepAdd(num) == created < MaxDeep /\ AddStep(num)
DeepLoad(filename) == LoadStep(filename, MaxDeep)
DeepNext ==
    \/ \E num \in DeepEdges : DeepAdd(num)
    \/ \E s \in DeepIndexInputs : ChangeHex(s)
    \/ RemoveLast
    \/ \E s \in DeepIndexInputs : Remove(s)
    \/ ShowAll
    \/ PrintFull
    \/ \E filename \in SaveNames : Save(filename)
    \/ \E filename \in FileNames : DeepLoad(filename)
    \/ Quit
DeepSpec == Init /\ [][DeepNext]_vars

\* Chains of add_hex from the seed: the editor driven by digit commands only.
ChainAdd(num) == created < MaxChain /\ AddStep(num)
ChainNext == \E num \in 0..5 : ChainAdd(num)
ChainSpec == Init /\ [][ChainNext]_vars

\* Class hex used as a library: add_hex called on the newest hex with any
\* integer num, check_neighbours called on any hex with any non-empty
\* selection of the points of CenterPool.
LibAddHex(num) ==
    /\ pc = "prompt"
    /\ created < MaxLib
    /\ IF add_hex_raises(num)
       THEN /\ UNCHANGED <<list_of_hexes, created, thicc>>
            /\ History("add_hex", [ok |-> TRUE, val |-> num], "raised")
       ELSE /\ list_of_hexes' =
                  Append(list_of_hexes,
                         add_hex(list_of_hexes[Len(list_of_hexes)], num,
                                 created + 1))
            /\ created' = created + 1
            /\ thicc' = Constructed(created + 1)
            /\ History("add_hex", [ok |-> TRUE, val |-> num], "ok")
    /\ UNCHANGED <<current_hex, current_hex_num, last_hex, last_hex_num,
                   last_bound, files>>

\* the centers of the hexes built so far, and the center that a hex over
\* the seed has
CenterPool ==
    {center(list_of_hexes[j]) : j \in 1..Len(list_of_hexes)}
        \cup {center(add_hex_over(start_hex, 0))}

LibCheckNeighbours(k, centers) ==
    /\ pc = "prompt"
    /\ LET h == list_of_hexes[k + 1]
       IN  /\ thicc' = [thicc EXCEPT ![h.id] = check_neighbours(h, centers)]
           /\ all_centers' = centers
    /\ cmd' = "check_neighbours"
    /\ arg' = [ok |-> TRUE, val |-> k]
    /\ outcome' = "ok"
    /\ UNCHANGED <<list_of_hexes, current_hex, current_hex_num, last_hex,
                   last_hex_num, last_bound, pc, created, pre_num,
                   before_add, pairs_only, files, added, loaded>>

LibNext ==
    \/ \E num \in (0 - MaxEdgeArg)..MaxEdgeArg : LibAddHex(num)
    \/ \E k \in 0..(Len(list_of_hexes) - 1) :
          \E centers \in (SUBSET CenterPool) \ {{}} :
             LibCheckNeighbours(k, centers)
LibSpec == Init /\ [][LibNext]_vars

\* ------------------------------------------------------------------ claims
\* 0-based valid indices of a list
Indices(list) == 0..(Len(list) - 1)
\* the state of the Drom: collection, current index, current hexagon
Drom == <<list_of_hexes, current_hex_num, current_hex>>
\* the recorded previous (last_hex, last_hex_num), with whether it is bound
Previous == <<last_hex, last_hex_num, last_bound>>
\* list2 is list1 with the entry at 0-based position I taken out
RemovedAt(list1, I, list2) ==
    /\ Len(list2) = Len(list1) - 1
    /\ \A j \in 1..Len(list2) :
          list2[j] = IF j <= I THEN list1[j] ELSE list1[j + 1]

\* C1: in every reachable state current_hex_num is a valid index of
\* list_of_hexes and the entry at that index is the current hex.
C1_CurrentIndexValid ==
    /\ current_hex_num \in Indices(list_of_hexes)
    /\ list_of_hexes[current_hex_num + 1] = current_hex

\* C2: every add appends exactly attach(hexagons[currentIndex], e), keeps
\* the earlier entries, records previous = (hexagons[currentIndex],
\* currentIndex) and makes the new last index current.
C2_AddAttachesToIndexed ==
    [][cmd' = "add" =>
        /\ current_hex_num \in Indices(list_of_hexes)
        /\ list_of_hexes' =
              Append(list_of_hexes,
                     add_hex(list_of_hexes[current_hex_num + 1], arg'.val,
                             created'))
        /\ last_bound'
        /\ last_hex' = list_of_hexes[current_hex_num + 1]
        /\ last_hex_num' = current_hex_num
        /\ current_hex_num' = Len(list_of_hexes') - 1]_vars

\* C3: a remove_last with no previous recorded (no add so far, or directly
\* after another remove_last) fails and leaves the collection and the
\* current index as they were.
C3_RemoveLastWithoutPreviousFails ==
    [][(cmd' = "remove_last" /\ (~last_bound \/ cmd = "remove_last")) =>
        /\ outcome' # "ok"
        /\ list_of_hexes' = list_of_hexes
        /\ current_hex_num' = current_hex_num]_vars

\* C4: change_hex with an integer outside [0, len) is rejected and leaves
\* the current index and the current hex as they were.
C4_ChangeHexOutOfRangeRejected ==
    [][(cmd' = "change_hex" /\ arg'.ok
            /\ arg'.val \notin Indices(list_of_hexes)) =>
        /\ outcome' = "rejected"
        /\ current_hex_num' = current_hex_num
        /\ current_hex' = current_hex]_vars

\* C5: remove with an integer outside [0, len) is rejected and removes
\* nothing: collection, current index and previous are unchanged.
C5_RemoveOutOfRangeRejected ==
    [][(cmd' = "remove" /\ arg'.ok
            /\ arg'.val \notin Indices(list_of_hexes)) =>
        /\ outcome' = "rejected"
        /\ list_of_hexes' = list_of_hexes
        /\ current_hex_num' = current_hex_num
        /\ Previous' = Previous]_vars

\* C6: a change_hex or remove that ends in its rejection path leaves the
\* collection, the current index, the current hex and previous unchanged.
C6_RejectedCommandChangesNothing ==
    [][(cmd' \in {"change_hex", "remove"} /\ outcome' = "rejected") =>
        (Drom' = Drom /\ Previous' = Previous)]_vars

\* C7: remove of the current index, when previous is recorded and its hex
\* is still in the collection after the removal, removes that entry and
\* makes the hex of previous current, at its position after the removal.
C7_RemoveCurrentFallsBackToPrevious ==
    [][(/\ cmd' = "remove" /\ arg'.ok
        /\ arg'.val \in Indices(list_of_hexes)
        /\ arg'.val = current_hex_num
        /\ last_bound
        /\ \E k \in 1..Len(list_of_hexes) :
              k # arg'.val + 1 /\ list_of_hexes[k] = last_hex) =>
        /\ outcome' = "ok"
        /\ RemovedAt(list_of_hexes, arg'.val, list_of_hexes')
        /\ current_hex' = last_hex
        /\ current_hex_num' \in Indices(list_of_hexes')
        /\ list_of_hexes'[current_hex_num' + 1] = last_hex]_vars
C7_Witness ==
    /\ cmd = "remove" /\ outcome = "ok"
    /\ arg.val = pre_num /\ arg.val \in 0..Len(list_of_hexes)
    /\ last_bound /\ current_hex = last_hex
    /\ list_of_hexes[current_hex_num + 1] = last_hex

C9_NeverEmpty == pc = "prompt" => Len(list_of_hexes) >= 1

\* C10: for every hex H built by a chain of add_hex from the seed and every
\* edge e, the hex add_hex(e) has among its vertices both vertices of H
\* that bound edge e (vertices e and (e+1) mod 6).
C10_SharedEdge ==
    \A k \in 1..Len(list_of_hexes) : \A e \in 0..5 :
        LET H == list_of_hexes[k]
            N == add_hex(H, e, 0)
        IN  edge_ends(H, e) \subseteq {vertices(N)[j] : j \in 1..6}
C10_Witness ==
    /\ cmd = "add" /\ Len(list_of_hexes) >= 3
    /\ list_of_hexes[3].start # list_of_hexes[1].start
    /\ Cardinality(edge_ends(list_of_hexes[2], arg.val)
                     \cap {vertices(list_of_hexes[3])[j] : j \in 1..6}) = 2

\* edge -> (shared vertex index on the source hex, pinned vertex index on
\* the new hex), as the specification tabulates it
EdgeTable == << <<0, 4>>, <<1, 5>>, <<2, 0>>, <<4, 0>>, <<5, 1>>, <<5, 3>> >>

\* C11: for every hex H of a chain and every edge e, the hex add_hex(e) has
\* its pinned vertex on H's shared vertex (both taken from the edge table);
\* the hex under the seed has its vertex 4 at the seed's vertex 0 = (0,0).
C11_PinnedVertexOnSharedVertex ==
    /\ \A k \in 1..Len(list_of_hexes) : \A e \in 0..5 :
          LET H == list_of_hexes[k]
              N == add_hex(H, e, 0)
          IN  vertices(N)[EdgeTable[e + 1][2] + 1] =
                  vertices(H)[EdgeTable[e + 1][1] + 1]
    /\ vertices(add_hex(list_of_hexes[1], 0, 0))[5] = <<0, 0>>
    /\ vertices(list_of_hexes[1])[1] = <<0, 0>>
C11_Witness ==
    /\ cmd = "add" /\ Len(list_of_hexes) >= 3
    /\ vertices(list_of_hexes[3])[EdgeTable[arg.val + 1][2] + 1] =
           vertices(list_of_hexes[2])[EdgeTable[arg.val + 1][1] + 1]
    /\ vertices(list_of_hexes[2])[5] = <<0, 0>>

\* the named method that belongs to edge e
named_add_hex(h, e, id) ==
    CASE e = 0 -> add_hex_under(h, id)
      [] e = 1 -> add_hex_bottom_right(h, id)
      [] e = 2 -> add_hex_top_right(h, id)
      [] e = 3 -> add_hex_over(h, id)
      [] e = 4 -> add_hex_top_left(h, id)
      [] e = 5 -> add_hex_bottom_left(h, id)

\* C17: for every hex H of a chain, add_hex(0..5) gives a hex with the same
\* start (hence the same vertices and center) as add_hex_under,
\* add_hex_bottom_right, add_hex_top_right, add_hex_over, add_hex_top_left
\* and add_hex_bottom_left respectively.
C17_TableAgreesWithNamedMethods ==
    \A k \in 1..Len(list_of_hexes) : \A e \in 0..5 :
        LET H == list_of_hexes[k]
            N == add_hex(H, e, 0)
            M == named_add_hex(H, e, 0)
        IN  /\ N.start = M.start
            /\ vertices(N) = vertices(M)
            /\ center(N) = center(M)
C17_Witness ==
    /\ cmd = "add" /\ arg.val = 5 /\ Len(list_of_hexes) >= 3
    /\ list_of_hexes[Len(list_of_hexes)].start =
           add_hex_bottom_left(list_of_hexes[Len(list_of_hexes) - 1], 0).start

\* C18: for every hex H of a chain and every edge e, the center of
\* add_hex(e) is H.neighbour_center[e], and H's center is the new hex's
\* neighbour_center[(e+3) mod 6].
C18_AttachedCenterIsNeighbourCenter ==
    \A k \in 1..Len(list_of_hexes) : \A e \in 0..5 :
        LET H == list_of_hexes[k]
            N == add_hex(H, e, 0)
        IN  /\ center(N) = neighbour_center(H)[e + 1]
            /\ center(H) = neighbour_center(N)[((e + 3) % 6) + 1]
C18_Witness ==
    /\ cmd = "add" /\ arg.val = 4 /\ Len(list_of_hexes) >= 2
    /\ center(list_of_hexes[Len(list_of_hexes)]) =
           neighbour_center(list_of_hexes[Len(list_of_hexes) - 1])[5]
    /\ center(list_of_hexes[Len(list_of_hexes) - 1]) =
           neighbour_center(list_of_hexes[Len(list_of_hexes)])[2]

\* C12: after check_neighbours(all_centers) on a hex, thicc[k] is false
\* exactly when a point of all_centers is the hex's neighbour_center[k];
\* for the seed and the hex under it, with both centers passed, the seed's
\* edge 0 is flagged false and its edges 1..5 true.
C12_ThiccIffNoCenterAtNeighbour ==
    cmd = "check_neighbours" =>
        LET H == list_of_hexes[arg.val + 1]
        IN  /\ \A k \in 0..5 :
                  (thicc[H.id][k + 1] = FALSE) <=>
                      (neighbour_center(H)[k + 1] \in all_centers)
            /\ (/\ arg.val = 0
                /\ Len(list_of_hexes) >= 2
                /\ list_of_hexes[2].start = <<0, -2>>
                /\ all_centers = {<<1, 1>>, <<1, -1>>}) =>
                   thicc[H.id] = <<FALSE, TRUE, TRUE, TRUE, TRUE, TRUE>>
C12_Witness ==
    /\ cmd = "check_neighbours" /\ arg.val = 0
    /\ Len(list_of_hexes) = 2
    /\ vertices(list_of_hexes[2])[5] = vertices(list_of_hexes[1])[1]
    /\ all_centers = {center(list_of_hexes[1]), center(list_of_hexes[2])}
    /\ thicc[1] = <<FALSE, TRUE, TRUE, TRUE, TRUE, TRUE>>

\* C13: add_hex called with an edge index outside [0,6) raises and returns
\* no hexagon.
C13_InvalidEdgeRejected ==
    (cmd = "add_hex" /\ arg.val \notin 0..5) => outcome = "raised"

\* C16: after every export each hexagon's thicc says, edge by edge, whether
\* no hexagon of the collection has its center at that neighbour center.
C16_ExportedFlagsAreCurrent ==
    (cmd \in {"add", "change_hex", "show_all", "remove_last", "remove"}
        /\ outcome = "ok") =>
        \A i \in 1..Len(list_of_hexes) : \A k \in 1..6 :
            thicc[list_of_hexes[i].id][k] <=>
                ~(\E j \in 1..Len(list_of_hexes) :
                    center(list_of_hexes[j]) =
                        neighbour_center(list_of_hexes[i])[k])

\* C14: a successful remove_last that follows an add, with only change_hex
\* and remove commands (and exports) in between, removes exactly the hex
\* that add appended.
C14_RemoveLastRemovesNewest ==
    [][(cmd' = "remove_last" /\ outcome' = "ok" /\ added # NoHex) =>
        \E k \in 1..Len(list_of_hexes) :
            /\ list_of_hexes[k] = added
            /\ RemovedAt(list_of_hexes, k - 1, list_of_hexes')]_vars

\* C15: remove of a valid index other than the current index keeps the
\* current hex and moves the current index to that hex's position after
\* the removal (one less when the removed index was below it).
C15_RemoveOtherKeepsCurrent ==
    [][(/\ cmd' = "remove" /\ arg'.ok
        /\ arg'.val \in Indices(list_of_hexes)
        /\ arg'.val # current_hex_num) =>
        /\ outcome' = "ok"
        /\ current_hex' = current_hex
        /\ current_hex_num' = IF arg'.val < current_hex_num
                              THEN current_hex_num - 1 ELSE current_hex_num
        /\ current_hex_num' \in Indices(list_of_hexes')
        /\ list_of_hexes'[current_hex_num' + 1] = current_hex']_vars

\* C19: after a load the current index is the last index of the loaded
\* collection, and until the next add the current hex is always a member
\* of the loaded collection.
C19_LoadResetsHistory ==
    /\ (cmd = "load" /\ outcome = "ok") =>
          (current_hex_num = Len(list_of_hexes) - 1 /\ loaded = list_of_hexes)
    /\ loaded # <<>> => InList(loaded, current_hex)

====
